---- MODULE Spec2Model ----
(***************************************************************************)
(* Model of generate_docker_compose.py: a one-shot script that bootstraps  *)
(* a logs directory with one log file per node and per microservice,       *)
(* builds the `services` dictionary from the node_config table and dumps   *)
(* {networks, services} to docker-compose.yml.                             *)
(*                                                                         *)
(* A file is modelled as a sequence: <<>> when the path does not exist and *)
(* <<content>> when it does.  A Python dict is modelled as a sequence of   *)
(* <<key, value>> pairs in insertion order with pairwise distinct keys.    *)
(***************************************************************************)
EXTENDS Integers, Sequences, FiniteSets, TLC

VARIABLES node_config, pc, i, logsDir, logs, services, compose, runs, fs0, prevOk

vars == <<node_config, pc, i, logsDir, logs, services, compose, runs, fs0, prevOk>>

(* ------------------------------ bounds -------------------------------- *)

MaxNodes == 2
MaxRuns == 2

(* ------------------------- program constants -------------------------- *)

PrimaryBase == 4000
SecondaryBase == 14000
LlmPort == 4030
MicroPort == 5000
NoFile == 65536

network_name == "redinternanodos"

MicroserviceNamesAll == <<"llm_microservice", "microservice", "redis-base">>

MicroserviceNames == <<"llm_microservice", "microservice">>

(* --------------------------- input domains ---------------------------- *)

NodeNames == {"node0", "node1", "microservice"}
RdbFiles == {"redis_node_0_5460_14000.rdb"}
TopologyPorts == {4000, 4001, 4030, 5000, 13999, 14000}

TopologyNodes == [name : NodeNames, rdb : RdbFiles, port : TopologyPorts]

FsNodes ==
    { [name |-> "node0", rdb |-> "redis_node_0_5460_14000.rdb", port |-> 4000],
      [name |-> "node1", rdb |-> "redis_node_0_5460_14000.rdb", port |-> 4001],
      [name |-> "microservice", rdb |-> "redis_node_0_5460_14000.rdb", port |-> 4002] }

Tables(D) == UNION { [1..n -> D] : n \in 0..MaxNodes }

(* ------------------------------- files -------------------------------- *)

Absent == <<>>
File(content) == <<content>>
Exists(f) == f # Absent

(* ------------------------ string formatting --------------------------- *)

Digits == <<"0", "1", "2", "3", "4", "5", "6", "7", "8", "9">>

RECURSIVE Str(_)
Str(n) ==
    IF n < 0 THEN "-" \o Str(-n)
    ELSE IF n < 10 THEN Digits[n + 1]
    ELSE Str(n \div 10) \o Digits[(n % 10) + 1]

RECURSIVE Join(_, _)
Join(sep, s) ==
    IF Len(s) = 0 THEN ""
    ELSE IF Len(s) = 1 THEN s[1]
    ELSE s[1] \o sep \o Join(sep, Tail(s))

Reverse(s) == [k \in 1..Len(s) |-> s[Len(s) + 1 - k]]

LogPath(name) == "logs/" \o name \o ".log"

LogPaths == { LogPath(n) : n \in NodeNames \cup {"llm_microservice", "microservice", "redis-base"} }

(* ----------------------------- log bootstrap -------------------------- *)

EnsureLogTruncate(fslogs, path) == [fslogs EXCEPT ![path] = File("")]

EnsureLogSkip(fslogs, path) == fslogs

EnsureLog(fslogs, path) ==
    IF Exists(fslogs[path]) THEN fslogs
    ELSE [fslogs EXCEPT ![path] = File("")]

(* open(path, "w") truncates an existing file and creates a missing one.   *)
OpenAppend(f) == IF Exists(f) THEN f ELSE File(<<>>)

OpenTruncate(f) == File(<<>>)

(* ------------------------------- dicts -------------------------------- *)

KeySet(d) == { d[k][1] : k \in 1..Len(d) }
Get(d, key) == d[CHOOSE k \in 1..Len(d) : d[k][1] = key][2]

DictSet(d, key, value) ==
    IF key \in KeySet(d)
    THEN [k \in 1..Len(d) |-> IF d[k][1] = key THEN <<key, value>> ELSE d[k]]
    ELSE Append(d, <<key, value>>)

(* ------------------------- service synthesis -------------------------- *)

RedisBase ==
    [ build |-> [context |-> ".", dockerfile |-> "./redis_server/BaseDockerfile"],
      image |-> "redis-base:latest",
      profiles |-> <<"build-only">> ]

SecondaryPortSame(port) == port

SecondaryPortLlm(port) == LlmPort + (port - PrimaryBase)

SecondaryPort(port) == SecondaryBase + (port - PrimaryBase)

PortBinding(p) == Str(p) \o ":" \o Str(p)

NodeService(node) ==
    LET node_name == node.name
        port == node.port
        log_file == "./logs/" \o node_name \o ".log"
        rdb_local_path == "./redis_server/rdb_files/" \o node.rdb
        rdb_container_path == "/app/redis_server/rdb_files/" \o node.rdb
    IN  [ networks |-> <<network_name>>,
          build |-> [ context |-> ".",
                      dockerfile |-> "./redis_server/NodeDockerfile",
                      args |-> [RDB_PATH |-> "redis_server/rdb_files/" \o node.rdb] ],
          container_name |-> node_name,
          working_dir |-> "/app/",
          environment |-> [ LOG_FILE |-> "/app/logs/" \o node_name \o ".log",
                            ENCRYPTION_KEY |-> "${ENCRYPTION_KEY}",
                            RDB_PATH |-> rdb_container_path ],
          ports |-> << PortBinding(SecondaryPort(port)), PortBinding(port) >>,
          volumes |-> << rdb_local_path \o ":" \o rdb_container_path,
                         log_file \o ":/app/logs/" \o node_name \o ".log" >>,
          ulimits |-> [nofile |-> [soft |-> NoFile, hard |-> NoFile]],
          command |-> <<Str(port)>> ]

DependsOnServices(cfg) == <<"redis-base">> \o [k \in 1..Len(cfg) |-> cfg[k].name]

DependsOn(cfg) == [k \in 1..Len(cfg) |-> cfg[k].name]

RedisNodeHostsForward(cfg) ==
    Join(",", [k \in 1..Len(cfg) |-> cfg[k].name \o ":" \o Str(cfg[k].port)])

RedisNodeHosts(cfg) ==
    Join(",", [k \in 1..Len(cfg) |->
                  Reverse(cfg)[k].name \o ":" \o Str(Reverse(cfg)[k].port)])

LlmService(cfg) ==
    [ networks |-> <<network_name>>,
      build |-> [context |-> ".", dockerfile |-> "llm_microservice/Dockerfile"],
      restart |-> "on-failure",
      image |-> "llm_microservice",
      container_name |-> "llm_microservice",
      working_dir |-> "/app",
      volumes |-> <<"./logs/llm_microservice.log:/app/logs/llm_microservice.log">>,
      depends_on |-> DependsOn(cfg),
      environment |-> [ REDIS_NODE_HOSTS |-> RedisNodeHosts(cfg),
                        GEMINI_API_KEY |-> "${GEMINI_API_KEY}",
                        LOG_FILE |-> "/app/logs/llm_microservice.log" ],
      ports |-> <<PortBinding(LlmPort)>>,
      command |-> <<"/app/llm_microservice_bin">> ]

MicroService(cfg) ==
    [ networks |-> <<network_name>>,
      build |-> [context |-> ".", dockerfile |-> "microservice/Dockerfile"],
      restart |-> "on-failure",
      image |-> "microservice",
      container_name |-> "microservice",
      working_dir |-> "/app",
      volumes |-> <<"./logs/microservice.log:/app/logs/microservice.log">>,
      depends_on |-> DependsOn(cfg),
      environment |-> [ REDIS_NODE_HOSTS |-> RedisNodeHosts(cfg),
                        LOG_FILE |-> "/app/logs/microservice.log" ],
      ports |-> <<PortBinding(MicroPort)>>,
      command |-> <<"/app/microservice_bin">> ]

RECURSIVE NodeServices(_, _, _)
NodeServices(d, cfg, k) ==
    IF k > Len(cfg) THEN d
    ELSE NodeServices(DictSet(d, cfg[k].name, NodeService(cfg[k])), cfg, k + 1)

BuildServicesDropLast(cfg) ==
    LET kept == IF Len(cfg) = 0 THEN cfg ELSE SubSeq(cfg, 1, Len(cfg) - 1)
        s1 == DictSet(<<>>, "redis-base", RedisBase)
        s2 == NodeServices(s1, kept, 1)
        s3 == DictSet(s2, "llm_microservice", LlmService(cfg))
    IN  DictSet(s3, "microservice", MicroService(cfg))

BuildServices(cfg) ==
    LET s1 == DictSet(<<>>, "redis-base", RedisBase)
        s2 == NodeServices(s1, cfg, 1)
        s3 == DictSet(s2, "llm_microservice", LlmService(cfg))
    IN  DictSet(s3, "microservice", MicroService(cfg))

DockerCompose(svcs) ==
    [ networks |-> <<network_name, [driver |-> "bridge"]>>,
      services |-> svcs ]

(* yaml.dump with sort_keys=False: the top-level keys and the services are   *)
(* emitted in insertion order; one emitted item for the networks mapping and *)
(* one per service.                                                          *)
Dump(dc) ==
    << <<"networks", dc.networks>> >>
    \o [k \in 1..Len(dc.services) |-> <<"services", dc.services[k][1], dc.services[k][2]>>]

(* ------------------------------ state --------------------------------- *)

Fs == [logsDir |-> logsDir, logs |-> logs, compose |-> compose]

StaleCompose == File(<< <<"networks", "stale">> >>)

InitProcess ==
    /\ pc = "makedirs"
    /\ i = 1
    /\ services = <<>>
    /\ runs = 1
    /\ prevOk = FALSE
    /\ fs0 = Fs

Init ==
    /\ node_config \in Tables(FsNodes)
    /\ logsDir \in BOOLEAN
    /\ \E pre \in SUBSET LogPaths :
          /\ (~logsDir => pre = {})
          /\ logs = [p \in LogPaths |-> IF p \in pre THEN File("old log lines") ELSE Absent]
    /\ compose \in {Absent, StaleCompose}
    /\ InitProcess

InitTopology ==
    /\ node_config \in Tables(TopologyNodes)
    /\ logsDir = FALSE
    /\ logs = [p \in LogPaths |-> Absent]
    /\ compose = Absent
    /\ InitProcess

(* ------------------------------ actions ------------------------------- *)

AfterMakedirs == IF Len(node_config) = 0 THEN "svclogs" ELSE "nodelogs"

MakeDirs ==
    /\ pc = "makedirs"
    /\ logsDir' = TRUE
    /\ pc' = AfterMakedirs
    /\ i' = 1
    /\ UNCHANGED <<node_config, logs, services, compose, runs, fs0, prevOk>>

NodeLog ==
    /\ pc = "nodelogs"
    /\ logs' = EnsureLog(logs, LogPath(node_config[i].name))
    /\ IF i = Len(node_config)
       THEN pc' = "svclogs" /\ i' = 1
       ELSE pc' = pc /\ i' = i + 1
    /\ UNCHANGED <<node_config, logsDir, services, compose, runs, fs0, prevOk>>

ServiceLog ==
    /\ pc = "svclogs"
    /\ logs' = EnsureLog(logs, LogPath(MicroserviceNames[i]))
    /\ IF i = Len(MicroserviceNames)
       THEN pc' = "synth" /\ i' = 1
       ELSE pc' = pc /\ i' = i + 1
    /\ UNCHANGED <<node_config, logsDir, services, compose, runs, fs0, prevOk>>

Synthesize ==
    /\ pc = "synth"
    /\ services' = BuildServices(node_config)
    /\ pc' = "open"
    /\ UNCHANGED <<node_config, i, logsDir, logs, compose, runs, fs0, prevOk>>

OpenCompose ==
    /\ pc = "open"
    /\ compose' = OpenTruncate(compose)
    /\ pc' = "write"
    /\ i' = 1
    /\ UNCHANGED <<node_config, logsDir, logs, services, runs, fs0, prevOk>>

WriteCompose ==
    /\ pc = "write"
    /\ i <= Len(Dump(DockerCompose(services)))
    /\ compose' = File(Append(compose[1], Dump(DockerCompose(services))[i]))
    /\ i' = i + 1
    /\ UNCHANGED <<node_config, pc, logsDir, logs, services, runs, fs0, prevOk>>

CloseCompose ==
    /\ pc = "write"
    /\ i > Len(Dump(DockerCompose(services)))
    /\ pc' = "done"
    /\ UNCHANGED <<node_config, i, logsDir, logs, services, compose, runs, fs0, prevOk>>

(* An OSError raised by a filesystem call ends the process with a traceback. *)
IOStep ==
    \/ pc = "makedirs" /\ ~logsDir
    \/ pc = "nodelogs" /\ ~Exists(logs[LogPath(node_config[i].name)])
    \/ pc = "svclogs" /\ ~Exists(logs[LogPath(MicroserviceNames[i])])
    \/ pc = "open"
    \/ pc = "write"

IOError ==
    /\ IOStep
    /\ pc' = "failed"
    /\ UNCHANGED <<node_config, i, logsDir, logs, services, compose, runs, fs0, prevOk>>

Rerun ==
    /\ pc \in {"done", "failed"}
    /\ runs < MaxRuns
    /\ runs' = runs + 1
    /\ pc' = "makedirs"
    /\ i' = 1
    /\ services' = <<>>
    /\ fs0' = Fs
    /\ prevOk' = (pc = "done")
    /\ UNCHANGED <<node_config, logsDir, logs, compose>>

Next ==
    \/ MakeDirs
    \/ NodeLog
    \/ ServiceLog
    \/ Synthesize
    \/ OpenCompose
    \/ WriteCompose
    \/ CloseCompose
    \/ IOError
    \/ Rerun

Spec == Init /\ [][Next]_vars

SpecTopology == InitTopology /\ [][Next]_vars

(* --------------------------- claim vocabulary ------------------------- *)

Built == services # <<>>

ReservedNames == {"redis-base", "llm_microservice", "microservice"}

NodeIdx == 1..Len(node_config)

NameSet == { node_config[k].name : k \in NodeIdx }

DistinctNames == \A a, b \in NodeIdx : a # b => node_config[a].name # node_config[b].name

DistinctPorts == \A a, b \in NodeIdx : a # b => node_config[a].port # node_config[b].port

PortsInRange == \A k \in NodeIdx : PrimaryBase <= node_config[k].port /\ node_config[k].port <= SecondaryBase - 1

NoReservedNodeName == NameSet \cap ReservedNames = {}

NoFixedServicePort == \A k \in NodeIdx : node_config[k].port \notin {LlmPort, MicroPort}

StorageEntries == { k \in 1..Len(services) : services[k][2].build.dockerfile = "./redis_server/NodeDockerfile" }

PortsOf(k) == IF "ports" \in DOMAIN services[k][2] THEN services[k][2].ports ELSE <<>>

VolumesOf(k) == IF "volumes" \in DOMAIN services[k][2] THEN services[k][2].volumes ELSE <<>>

BindingSlots(E) == { <<k, j>> : k \in E, j \in 1..2 } \cap { s \in (1..Len(services)) \X (1..2) : s[2] <= Len(PortsOf(s[1])) }

BindingsDistinct(E) ==
    \A s, t \in BindingSlots(E) : s # t => PortsOf(s[1])[s[2]] # PortsOf(t[1])[t[2]]

CreatedLogs == { p \in LogPaths : logs[p] # fs0.logs[p] }

(* ------------------------------- C1 ----------------------------------- *)

(* C1 as stated: for a table of N nodes with pairwise distinct names the    *)
(* services mapping of the manifest has N + 2 entries in total.             *)
C1_TotalIsNPlus2 ==
    (Built /\ DistinctNames) => Len(services) = Len(node_config) + 2

(* C1 amended: for a table of N nodes with pairwise distinct names, none of *)
(* them named redis-base, llm_microservice or microservice, the services    *)
(* mapping has exactly N storage-node entries (one keyed by each node name) *)
(* plus llm_microservice, microservice and the build-only redis-base entry: *)
(* N + 3 entries in total.                                                  *)
C1_ServiceCount ==
    (Built /\ DistinctNames /\ NoReservedNodeName) =>
        /\ Cardinality(StorageEntries) = Len(node_config)
        /\ { services[k][1] : k \in StorageEntries } = NameSet
        /\ KeySet(services) = NameSet \cup ReservedNames
        /\ Len(services) = Len(node_config) + 3

C1_Witness ==
    /\ pc = "done"
    /\ DistinctNames /\ NoReservedNodeName
    /\ Len(node_config) = 2
    /\ Len(services) = 5

(* ------------------------------- C2 ----------------------------------- *)

(* C2: every storage-node service has exactly two port bindings, the node's *)
(* primary port and the secondary port 14000 + (port - 4000); when the      *)
(* primary ports are pairwise distinct and lie in [4000, 13999], all the    *)
(* bindings of the storage-node services are pairwise distinct, so no       *)
(* secondary port equals another secondary port or any primary port.        *)
C2_PortBindings ==
    Built =>
        /\ \A k \in StorageEntries :
              /\ Len(services[k][2].ports) = 2
              /\ \E n \in NodeIdx :
                    /\ node_config[n].name = services[k][1]
                    /\ { services[k][2].ports[1], services[k][2].ports[2] }
                          = { Str(node_config[n].port) \o ":" \o Str(node_config[n].port),
                              Str(node_config[n].port + 10000) \o ":" \o Str(node_config[n].port + 10000) }
        /\ (DistinctPorts /\ PortsInRange) => BindingsDistinct(StorageEntries)

C2_Witness ==
    /\ pc = "done"
    /\ DistinctNames /\ NoReservedNodeName /\ DistinctPorts /\ PortsInRange
    /\ Len(node_config) = 2
    /\ Cardinality(BindingSlots(StorageEntries)) = 4
    /\ \E k \in StorageEntries : services[k][2].ports = <<"23999:23999", "13999:13999">>

(* ------------------------------- C3 ----------------------------------- *)

(* C3: whatever the order of the table, depends_on of llm_microservice and  *)
(* of microservice is, as a set, exactly the set of the node names.         *)
C3_DependsOnAllNodes ==
    Built =>
        \A s \in {"llm_microservice", "microservice"} :
            { Get(services, s).depends_on[k] : k \in 1..Len(Get(services, s).depends_on) } = NameSet

C3_Witness ==
    /\ pc = "done"
    /\ Len(node_config) = 2
    /\ node_config[1].name = "node1" /\ node_config[2].name = "node0"
    /\ Get(services, "microservice").depends_on = <<"node1", "node0">>

(* ------------------------------- C4 ----------------------------------- *)

RECURSIVE HostsDownFrom(_)
HostsDownFrom(k) ==
    IF k = 0 THEN ""
    ELSE node_config[k].name \o ":" \o Str(node_config[k].port)
         \o (IF k = 1 THEN "" ELSE "," \o HostsDownFrom(k - 1))

(* C4: REDIS_NODE_HOSTS of both dependent services is the same comma-       *)
(* delimited list of name:port pairs, last node of the table first; for the *)
(* table [node0:4000, node1:4001] it is node1:4001,node0:4000.              *)
C4_HostsReversed ==
    Built =>
        /\ Get(services, "llm_microservice").environment.REDIS_NODE_HOSTS
              = Get(services, "microservice").environment.REDIS_NODE_HOSTS
        /\ Get(services, "microservice").environment.REDIS_NODE_HOSTS
              = HostsDownFrom(Len(node_config))
        /\ ( /\ Len(node_config) = 2
             /\ node_config[1].name = "node0" /\ node_config[1].port = 4000
             /\ node_config[2].name = "node1" /\ node_config[2].port = 4001 )
           => Get(services, "llm_microservice").environment.REDIS_NODE_HOSTS
                 = "node1:4001,node0:4000"

C4_Witness ==
    /\ pc = "done"
    /\ Len(node_config) = 2
    /\ node_config[1].name = "node0" /\ node_config[1].port = 4000
    /\ node_config[2].name = "node1" /\ node_config[2].port = 4001
    /\ Get(services, "microservice").environment.REDIS_NODE_HOSTS = "node1:4001,node0:4000"

(* ------------------------------- C5 ----------------------------------- *)

(* C5: after a run that failed with an I/O error, docker-compose.yml is     *)
(* either what it was when the run started or the complete new manifest.    *)
C5_NoPartialManifest ==
    pc = "failed" =>
        \/ compose = fs0.compose
        \/ compose = File(Dump(DockerCompose(BuildServices(node_config))))

(* ------------------------------- C6 ----------------------------------- *)

(* C6: when a run that completed is followed by another run on the same     *)
(* table, the second run neither creates nor changes a log file, and once   *)
(* it has completed docker-compose.yml has the content the first run left.  *)
C6_SecondRunIdentical ==
    prevOk =>
        /\ logsDir = fs0.logsDir
        /\ logs = fs0.logs
        /\ (pc = "done" => compose = fs0.compose)

C6_Witness ==
    /\ prevOk
    /\ pc = "done"
    /\ runs = 2
    /\ Len(node_config) = 2
    /\ Fs = fs0
    /\ \E p \in LogPaths : logs[p] = File("old log lines")
    /\ \E p \in LogPaths : logs[p] = File("")

(* ------------------------------- C7 ----------------------------------- *)

(* C7: a log file that existed when the run started keeps its content, and  *)
(* a log file whose state changed during the run was absent and is now      *)
(* empty.                                                                   *)
C7_LogsNeverTruncated ==
    \A p \in LogPaths :
        /\ Exists(fs0.logs[p]) => logs[p] = fs0.logs[p]
        /\ logs[p] # fs0.logs[p] => (fs0.logs[p] = Absent /\ logs[p] = File(""))

C7_Witness ==
    /\ pc = "done"
    /\ Len(node_config) = 2
    /\ fs0.logs[LogPath(node_config[1].name)] = File("old log lines")
    /\ logs[LogPath(node_config[1].name)] = File("old log lines")
    /\ fs0.logs[LogPath(node_config[2].name)] = Absent
    /\ logs[LogPath(node_config[2].name)] = File("")

(* ------------------------------- C8 ----------------------------------- *)

(* C8 as stated: once the services are built and the manifest is written,   *)
(* logs/<name>.log exists for every service name of the services mapping.   *)
C8_LogForEveryService ==
    pc \in {"write", "done"} =>
        \A k \in 1..Len(services) : Exists(logs[LogPath(services[k][1])])

(* C8 amended: once the services are built, logs/<name>.log exists for      *)
(* every service name of the services mapping other than redis-base (every  *)
(* storage node and both dependent services), and every volume binding of   *)
(* the manifest is either an RDB snapshot binding or binds a host log path  *)
(* that exists.                                                             *)
C8_LogsBeforeManifest ==
    Built =>
        /\ \A k \in 1..Len(services) :
              services[k][1] # "redis-base" => Exists(logs[LogPath(services[k][1])])
        /\ \A k \in 1..Len(services) : \A v \in 1..Len(VolumesOf(k)) :
              \/ \E r \in RdbFiles :
                    VolumesOf(k)[v] = "./redis_server/rdb_files/" \o r
                                      \o ":/app/redis_server/rdb_files/" \o r
              \/ \E p \in LogPaths :
                    /\ VolumesOf(k)[v] = "./" \o p \o ":/app/" \o p
                    /\ Exists(logs[p])

C8_Witness ==
    /\ pc = "write"
    /\ i = 2
    /\ Len(node_config) = 2
    /\ DistinctNames
    /\ \A k \in NodeIdx : fs0.logs[LogPath(node_config[k].name)] = Absent
    /\ \A k \in NodeIdx : logs[LogPath(node_config[k].name)] = File("")
    /\ logs[LogPath("redis-base")] = Absent

(* ------------------------------- C9 ----------------------------------- *)

(* C9: with an empty table the run can always proceed up to completion      *)
(* without touching a node, and once it has completed the manifest on disk  *)
(* has no storage-node service, has both dependent services with an empty   *)
(* depends_on and an empty REDIS_NODE_HOSTS, and the only log files the run *)
(* created are those of the two dependent services.                         *)
C9_EmptyTopology ==
    node_config = <<>> =>
        /\ pc \notin {"done", "failed"} =>
              ENABLED (MakeDirs \/ ServiceLog \/ Synthesize \/ OpenCompose
                       \/ WriteCompose \/ CloseCompose)
        /\ CreatedLogs \subseteq {LogPath("llm_microservice"), LogPath("microservice")}
        /\ pc = "done" =>
              /\ StorageEntries = {}
              /\ {"llm_microservice", "microservice"} \subseteq KeySet(services)
              /\ \A s \in {"llm_microservice", "microservice"} :
                    /\ Get(services, s).depends_on = <<>>
                    /\ Get(services, s).environment.REDIS_NODE_HOSTS = ""
              /\ compose = File(Dump(DockerCompose(services)))
              /\ Exists(logs[LogPath("llm_microservice")])
              /\ Exists(logs[LogPath("microservice")])

C9_Witness ==
    /\ node_config = <<>>
    /\ pc = "done"
    /\ runs = 1
    /\ CreatedLogs = {LogPath("llm_microservice"), LogPath("microservice")}
    /\ Len(compose[1]) = 4

(* ------------------------------- C10 ---------------------------------- *)

(* C10 as stated: with pairwise distinct names and primary ports in         *)
(* [4000, 13999], the host ports bound across all services are pairwise     *)
(* distinct.                                                                *)
C10_AllHostPortsDistinct ==
    (Built /\ DistinctNames /\ DistinctPorts /\ PortsInRange) =>
        BindingsDistinct(1..Len(services))

(* C10 amended: with pairwise distinct names and primary ports in           *)
(* [4000, 13999], none of them 4030 or 5000, the host ports bound across    *)
(* all services are pairwise distinct.                                      *)
C10_HostPortsDistinct ==
    (Built /\ DistinctNames /\ DistinctPorts /\ PortsInRange /\ NoFixedServicePort) =>
        BindingsDistinct(1..Len(services))

C10_Witness ==
    /\ pc = "done"
    /\ DistinctNames /\ NoReservedNodeName /\ DistinctPorts /\ PortsInRange /\ NoFixedServicePort
    /\ Len(node_config) = 2
    /\ Cardinality(BindingSlots(1..Len(services))) = 6

====
